---- MODULE Spec2Model ----
(***************************************************************************)
(* Model of the polling + offset-persistence core of the Telegram bot:     *)
(* StateManager (cursor store), TelegramClient.getUpdates (remote update   *)
(* source) and PollingService (polling loop), together with the process    *)
(* life cycle (Bot.start, a crash or exit, a new process on the same       *)
(* backing file), the signal handlers of index.ts, and, each on its own,   *)
(* the CommandHandler, the MessageHandler and the TelegramClient's file    *)
(* downloads.                                                              *)
(***************************************************************************)
EXTENDS Integers, Sequences, FiniteSets, TLC

\* ------------------------------------------------------------------ bounds
MaxId == 2            \* update ids are 0..MaxId
MaxRestarts == 1      \* process restarts explored by SpecRestart
InitMaxOffset == 2    \* largest offset a backing file left by an earlier life holds

Ids == 0..MaxId
MaxBatch == 2        \* longest batch the remote returns
NoFile == 0 - 1       \* the backing file does not exist
NoId == 0 - 1         \* no update yet

\* ---------------------------------------------------------------- helpers
RECURSIVE SeqsUpTo(_, _)
SeqsUpTo(S, n) ==
    IF n = 0 THEN {<<>>}
    ELSE LET shorter == SeqsUpTo(S, n - 1)
         IN  shorter \cup {Append(s, x) : s \in {t \in shorter : Len(t) = n - 1}, x \in S}

\* the local `updates` of poll(): a batch is the sequence of its update ids
Batches == SeqsUpTo(Ids, MaxBatch)

SetMax(S) == CHOOSE m \in S : \A x \in S : x <= m

\* a batch as the remote API documents it: strictly ascending update ids, all
\* at or above the offset of the request
Ascending(b) == \A i \in 1..Len(b) : \A j \in 1..Len(b) : i < j => b[i] < b[j]
AtOrAbove(b, off) == \A i \in 1..Len(b) : b[i] >= off

\* what the remote may answer to getUpdates({offset: off}): the documented API
\* ("api"), or any batch at all ("any")
RemoteBatches(kind, off) ==
    IF kind = "api" THEN {b \in Batches : Ascending(b) /\ AtOrAbove(b, off)}
    ELSE Batches

\* the answers a fetch() of makeRequest can meet: the request fails, or the
\* body is a TelegramResponse with ok false or with ok true and a result
\* (description: "" stands for a missing or empty description)
Descriptions == {"", "Unauthorized"}
Responses(kind, off) ==
    {[net |-> "error", ok |-> FALSE, result |-> <<>>, description |-> ""]}
    \cup {[net |-> "json", ok |-> FALSE, result |-> <<>>, description |-> d] :
              d \in Descriptions}
    \cup {[net |-> "json", ok |-> TRUE, result |-> b, description |-> ""] :
              b \in RemoteBatches(kind, off)}

\* what happened on the wire, whatever the client makes of it
Wire(resp) ==
    IF resp.net = "error" THEN "error"
    ELSE IF ~resp.ok THEN "rejected"
    ELSE IF Len(resp.result) = 0 THEN "empty"
    ELSE "batch"

\* the message of the Error makeRequest throws when data.ok is false
ApiError(description) ==
    "Telegram API error: " \o (IF description = "" THEN "Unknown error" ELSE description)

\* the message of whatever error fetch() or response.json() rejected with
FetchError == "fetch failed"

\* the outcome of a makeRequest call: it raised an Error with a message, or it
\* returned a value; requests is the number of fetch() calls it made
Raise(msg, n) == [raised |-> TRUE, value |-> <<>>, message |-> msg, requests |-> n]
Return(val, n) == [raised |-> FALSE, value |-> val, message |-> "", requests |-> n]

\* TelegramClient.makeRequest / getUpdates: one request; raises when fetch
\* fails or data.ok is false, returns data.result otherwise
makeRequest_ignoresOk(resp) ==
    IF resp.net = "error" THEN Raise(FetchError, 1)
    ELSE Return(resp.result, 1)
makeRequest_throwsOnEmpty(resp) ==
    IF resp.net = "error" THEN Raise(FetchError, 1)
    ELSE IF ~resp.ok \/ Len(resp.result) = 0 THEN Raise(ApiError(resp.description), 1)
    ELSE Return(resp.result, 1)
makeRequest_retries(resp) ==
    IF resp.net = "error" THEN Raise(FetchError, 2)
    ELSE IF ~resp.ok THEN Raise(ApiError(resp.description), 1)
    ELSE Return(resp.result, 1)
makeRequest(resp) ==
    IF resp.net = "error" THEN Raise(FetchError, 1)
    ELSE IF ~resp.ok THEN Raise(ApiError(resp.description), 1)
    ELSE Return(resp.result, 1)

\* poll(): the value handed to setOffset after onUpdate(update) returned
OffsetAfter_same(u) == u
OffsetAfter(u) == u + 1

\* poll(): the cursor after onUpdate(update) raised, from the cursor cur, the
\* offset req the batch was requested at and the update id u: the catch only
\* logs, so the cursor stays
OffsetAfterRaise_advance(cur, req, u) == u + 1
OffsetAfterRaise_rollback(cur, req, u) == req
OffsetAfterRaise(cur, req, u) == cur

\* poll(): `for (const update of updates)` visits the positions 1, 2, ...
NextIndex_skip(i) == i + 2
NextIndex(i) == i + 1

\* poll(): the position the loop takes after onUpdate raised at position i of
\* a batch of len updates: the catch is inside the loop body
IndexAfterRaise_abort(i, len) == len + 1
IndexAfterRaise(i, len) == NextIndex(i)

\* load(): the offset of the state parsed from the file's content
LoadedOffset_ignored(content) == 0
LoadedOffset(content) == content

\* setOffset(): the in-memory state once save() is over, from the state st
\* that setOffset assigned, the file f and whether the write succeeded: save()
\* touches the file only
AfterSave_revert(st, f, ioOk) ==
    IF ioOk THEN st ELSE [offset |-> IF f = NoFile THEN 0 ELSE f]
AfterSave(st, f, ioOk) == st

\* start(): the condition of `while (this.isRunning)`
LoopCondition_always(running) == TRUE
LoopCondition(running) == running

\* start(): the positions at which the loop condition is read: the head of
\* the while loop only; stop() interrupts nothing
ExitPoints_abortable == {"top", "fetching", "saving"}
ExitPoints == {"top"}

\* start(): where a poll() that rejected leaves start(): in the catch, which
\* logs and sleeps
AfterPollRaises_propagates == "rejected"
AfterPollRaises == "backoff"

\* ------------------------------------ the StateManager's values and calls
\* JavaScript values and the JSON texts of a file, as a tag t and a number v
JS(tag, n) == [t |-> tag, v |-> n]
Undefined == JS("undefined", 0)

\* existsSync(statePath) is false
Absent == JS("absent", 0)

\* the texts a backing file may hold: no JSON at all, null, a number, [], {},
\* {"offset": "7"} and {"offset": n}
FileOffsets == (0 - 1)..InitMaxOffset
FileContents ==
    {JS(k, 0) : k \in {"invalid", "null", "number", "array", "object", "offsetString"}}
    \cup {JS("offset", n) : n \in FileOffsets}

\* constructor: this.state = { offset: 0 }
InitialState == JS("offset", 0)

\* JSON.parse(data): throws on a text that is not JSON
JSONparse(text) == [raised |-> text.t = "invalid", value |-> text]

\* JSON.stringify(this.state, null, 2): an array is written with its elements
\* only, so without an offset property assigned to it
JSONstringify_empty(value) == JS("object", 0)
JSONstringify(value) == IF value.t = "arrayOffset" THEN JS("array", 0) ELSE value

\* the expression `value.offset`: throws on null, is undefined where there is
\* no such property
ReadOffset(value) ==
    IF value.t = "null" THEN [raised |-> TRUE, value |-> Undefined]
    ELSE [raised |-> FALSE,
          value |-> IF value.t \in {"offset", "arrayOffset"} THEN JS("int", value.v)
                    ELSE IF value.t = "offsetString" THEN JS("string", 0)
                    ELSE Undefined]

\* the statement `value.offset = n` of a module (strict mode): throws on a
\* primitive value, adds or replaces the property of an object or an array
WriteOffset(value, n) ==
    IF value.t = "number" THEN [raised |-> TRUE, value |-> value]
    ELSE [raised |-> FALSE,
          value |-> IF value.t \in {"array", "arrayOffset"} THEN JS("arrayOffset", n)
                    ELSE JS("offset", n)]

\* StateManager.ensureDirectoryExists: mkdir when the directory is missing
ensureDirectoryExists(dir, mkdirOk) ==
    IF dir THEN [raised |-> FALSE, dir |-> TRUE]
    ELSE IF mkdirOk THEN [raised |-> FALSE, dir |-> TRUE]
    ELSE [raised |-> TRUE, dir |-> FALSE]

\* StateManager.save: the directory, then the file written in full; an error
\* is logged and not raised
save(st, f, dir, mkdirOk, writeOk) ==
    LET e == ensureDirectoryExists(dir, mkdirOk)
    IN  IF e.raised THEN [file |-> f, dir |-> dir, failed |-> TRUE]
        ELSE IF writeOk THEN [file |-> JSONstringify(st), dir |-> TRUE, failed |-> FALSE]
        ELSE [file |-> f, dir |-> e.dir, failed |-> TRUE]

\* StateManager.load: the state the catch block leaves
AfterLoadError_keeps(st) == st
AfterLoadError(st) == InitialState

\* StateManager.load: cause is what was logged as an error ("none": nothing)
load(st, f, dir, mkdirOk, readOk, writeOk) ==
    IF f = Absent
    THEN LET e == ensureDirectoryExists(dir, mkdirOk)
         IN  IF e.raised
             THEN [state |-> AfterLoadError(st), file |-> f, dir |-> dir, cause |-> "mkdir"]
             ELSE LET sv == save(st, f, e.dir, mkdirOk, writeOk)
                  IN  [state |-> st, file |-> sv.file, dir |-> sv.dir,
                       cause |-> IF sv.failed THEN "write" ELSE "none"]
    ELSE IF ~readOk
    THEN [state |-> AfterLoadError(st), file |-> f, dir |-> dir, cause |-> "read"]
    ELSE LET parsed == JSONparse(f)
         IN  IF parsed.raised
             THEN [state |-> AfterLoadError(st), file |-> f, dir |-> dir, cause |-> "parse"]
             ELSE IF ReadOffset(parsed.value).raised
             THEN [state |-> AfterLoadError(st), file |-> f, dir |-> dir, cause |-> "null"]
             ELSE [state |-> parsed.value, file |-> f, dir |-> dir, cause |-> "none"]

\* StateManager.setOffset: the assignment, then save()
setOffset(st, f, dir, n, mkdirOk, writeOk) ==
    LET w == WriteOffset(st, n)
    IN  IF w.raised
        THEN [state |-> st, file |-> f, dir |-> dir, raised |-> TRUE, cause |-> "type"]
        ELSE LET sv == save(w.value, f, dir, mkdirOk, writeOk)
             IN  [state |-> w.value, file |-> sv.file, dir |-> sv.dir, raised |-> FALSE,
                  cause |-> IF sv.failed THEN "write" ELSE "none"]

\* PollingService.constructor: pollTimeout and pollLimit
pollTimeout == 30
pollLimit == 100

\* poll(): the parameters handed to client.getUpdates for the offset read
GetUpdatesParams_noLimit(offset) ==
    [offset |-> offset, timeout |-> pollTimeout, limit |-> 0]
GetUpdatesParams(offset) ==
    [offset |-> offset, timeout |-> pollTimeout, limit |-> pollLimit]

\* no getUpdates call yet
NoRequest == [offset |-> 0, timeout |-> 0, limit |-> 0]

\* ------------------------------------------------ strings and JS numbers
\* a string is the sequence of its characters; the letters of the model are
\* d, D, i and I
Lower(c) == IF c = "D" THEN "d" ELSE IF c = "I" THEN "i" ELSE c

\* String.prototype.toLowerCase, startsWith, slice(n) and split(sep)
toLowerCase(s) == [i \in 1..Len(s) |-> Lower(s[i])]
startsWith(s, c) == Len(s) > 0 /\ s[1] = c
slice(s, n) == SubSeq(s, n + 1, Len(s))
RECURSIVE split(_, _)
split(s, sep) ==
    IF \A i \in 1..Len(s) : s[i] # sep THEN <<s>>
    ELSE LET k == CHOOSE i \in 1..Len(s) : s[i] = sep /\ \A j \in 1..(i - 1) : s[j] # sep
         IN  <<SubSeq(s, 1, k - 1)>> \o split(SubSeq(s, k + 1, Len(s)), sep)

\* null and NaN, next to Undefined and the numbers JS("number", n)
Null == JS("null", 0)
NaN == JS("NaN", 0)
Number(n) == JS("number", n)

\* the truth value `if (x)` and `x && ...` give a number, null, NaN or undefined
Truthy(x) == x.t = "number" /\ x.v # 0

\* a !== b on such values
StrictNotEqual(a, b) == a.t = "NaN" \/ b.t = "NaN" \/ a # b

\* the decimal digits, and the number a sequence of digits denotes
DigitChars == <<"0", "1", "2", "3", "4", "5", "6", "7", "8", "9">>
DigitValue(c) ==
    IF \E d \in DOMAIN DigitChars : DigitChars[d] = c
    THEN (CHOOSE d \in DOMAIN DigitChars : DigitChars[d] = c) - 1
    ELSE NoId
RECURSIVE Decimal(_)
Decimal(s) ==
    IF Len(s) = 0 THEN 0
    ELSE 10 * Decimal(SubSeq(s, 1, Len(s) - 1)) + DigitValue(s[Len(s)])

\* the longest prefix of s made of digits, and s without its leading spaces
RECURSIVE DigitPrefix(_)
DigitPrefix(s) ==
    IF Len(s) = 0 \/ DigitValue(s[1]) = NoId THEN <<>>
    ELSE <<s[1]>> \o DigitPrefix(Tail(s))
RECURSIVE TrimStart(_)
TrimStart(s) == IF startsWith(s, " ") THEN TrimStart(Tail(s)) ELSE s

\* parseInt(s, 10): leading white space is skipped, a sign is read, then the
\* digits up to the first character that is none; NaN when there is no digit
parseInt(s) ==
    LET t == TrimStart(s)
        signed == startsWith(t, "-") \/ startsWith(t, "+")
        digits == DigitPrefix(IF signed THEN Tail(t) ELSE t)
    IN  IF Len(digits) = 0 THEN NaN
        ELSE IF startsWith(t, "-") THEN Number(0 - Decimal(digits))
        ELSE Number(Decimal(digits))

\* --------------------------------------------------------- CommandHandler
\* the callbacks: those of the four default commands, which send one message,
\* and two the caller registers
DefaultCallbacks == {"start", "help", "ping", "id"}
Callbacks == {"first", "second"}

\* the commands registerDefaultCommands() registers in the constructor
DefaultCommands ==
    (<<"s", "t", "a", "r", "t">> :> "start") @@ (<<"h", "e", "l", "p">> :> "help")
    @@ (<<"p", "i", "n", "g">> :> "ping") @@ (<<"i", "d">> :> "id")

\* CommandHandler.registerCommand: this.commands.set(command, ...) with the
\* key as given
registerCommand(cmds, command, callback) == (command :> callback) @@ cmds

\* what a handler did: the route handle() took, the sendMessage calls and
\* downloadFileById calls it made, the command callbacks it called with their
\* arguments, and whether it raised
Did(route, sent, downloads, callbacks, raised) ==
    [route |-> route, sent |-> sent, downloads |-> downloads, callbacks |-> callbacks,
     raised |-> raised]
Nothing == Did("none", 0, 0, <<>>, FALSE)

\* the try / catch around the callback in CommandHandler.handle: whether
\* handle raises when the callback did
CallbackRaises_propagates(cbOk) == ~cbOk
CallbackRaises(cbOk) == FALSE

\* CommandHandler.handle(message): text "" stands for an absent text as well;
\* a default callback sends one message and raises when that fails
handleCommand(cmds, text, cbOk) ==
    IF Len(text) = 0 \/ ~startsWith(text, "/") THEN Did("command", 0, 0, <<>>, FALSE)
    ELSE LET parts == split(slice(text, 1), " ")
             command == toLowerCase(parts[1])
             args == Tail(parts)
         IN  IF command \notin DOMAIN cmds THEN Did("command", 0, 0, <<>>, FALSE)
             ELSE Did("command", IF cmds[command] \in DefaultCallbacks THEN 1 ELSE 0, 0,
                      <<[callback |-> cmds[command], args |-> args]>>,
                      CallbackRaises(cbOk))

\* --------------------------------------------------------- MessageHandler
\* process.env.ALLOWED_USER_ID: not set, or a string
EnvUnset == [set |-> FALSE, value |-> <<>>]
EnvSet(s) == [set |-> TRUE, value |-> s]

\* the constructor: allowedUserIdStr ? parseInt(allowedUserIdStr, 10) : null
AllowedUserId(env) ==
    IF ~env.set \/ Len(env.value) = 0 THEN Null ELSE parseInt(env.value)

\* the guard of handle(): the filter is on and the sender is someone else
Unauthorized(allowed, from) == Truthy(allowed) /\ StrictNotEqual(from, allowed)

\* handleDocumentMessage and handlePhotoMessage past their guards: one
\* downloadFileById; when it raises, one sendMessage, whose error propagates
downloadOrReport(route, dlOk, sendOk) ==
    IF dlOk THEN Did(route, 0, 1, <<>>, FALSE) ELSE Did(route, 1, 1, <<>>, ~sendOk)

\* the if chain of MessageHandler.handle; photo is "absent", "empty" (an
\* array of length 0, which is truthy) or "some"
Route_photoFirst(allowed, message) ==
    IF Unauthorized(allowed, message.from) THEN "none"
    ELSE IF message.photo # "absent" THEN "photo"
    ELSE IF message.document THEN "document"
    ELSE IF startsWith(message.text, "/") THEN "command"
    ELSE "text"
Route(allowed, message) ==
    IF Unauthorized(allowed, message.from) THEN "none"
    ELSE IF message.document THEN "document"
    ELSE IF message.photo # "absent" THEN "photo"
    ELSE IF startsWith(message.text, "/") THEN "command"
    ELSE "text"

\* MessageHandler.handle(message)
handleMessage(allowed, cmds, message, dlOk, sendOk, cbOk) ==
    LET route == Route(allowed, message) IN
    IF route = "none" THEN Nothing
    ELSE IF route = "document" THEN downloadOrReport(route, dlOk, sendOk)
    ELSE IF route = "photo"
         THEN IF message.photo = "empty" THEN Did(route, 0, 0, <<>>, FALSE)
              ELSE downloadOrReport(route, dlOk, sendOk)
    ELSE IF route = "command" THEN handleCommand(cmds, message.text, cbOk)
    ELSE IF Len(message.text) = 0 THEN Did(route, 0, 0, <<>>, FALSE)
    ELSE Did(route, 1, 0, <<>>, ~sendOk)

\* file_size is absent, in a PhotoSize or a File
NoSize == 0 - 1

\* the area of a PhotoSize, and `p.file_size &&`
area(p) == p.width * p.height
HasSize(p) == p.file_size # NoSize /\ p.file_size # 0

\* the callback of message.photo.reduce in handlePhotoMessage, on the
\* positions of `largest` and `current` in the array
Pick(photos, largest, current) ==
    IF HasSize(photos[current]) /\ HasSize(photos[largest])
    THEN IF photos[current].file_size > photos[largest].file_size THEN current ELSE largest
    ELSE IF area(photos[current]) > area(photos[largest]) THEN current ELSE largest

\* Array.prototype.reduce without an initial value, from position i on
RECURSIVE reduce(_, _, _)
reduce(photos, largest, i) ==
    IF i > Len(photos) THEN largest
    ELSE reduce(photos, Pick(photos, largest, i), i + 1)

\* handlePhotoMessage: the position of largestPhoto in a non-empty array
largestPhoto(photos) == reduce(photos, 1, 2)

\* ------------------------------------------------ TelegramClient downloads
\* const MAX_FILE_SIZE of downloadFileById
MAX_FILE_SIZE == 20 * 1024 * 1024

\* the File getFile returns: file_path "" stands for an absent one as well
Files ==
    [file_path : {"", "documents/file_1.pdf"},
     file_size : {NoSize, 0, MAX_FILE_SIZE - 1, MAX_FILE_SIZE, MAX_FILE_SIZE + 1}]

\* the answers the getFile request can meet (a failure carries no File)
NoResult == [file_path |-> "", file_size |-> NoSize]
FileResponses ==
    {[net |-> "error", ok |-> FALSE, result |-> NoResult, description |-> ""]}
    \cup {[net |-> "json", ok |-> FALSE, result |-> NoResult, description |-> d] :
              d \in Descriptions}
    \cup {[net |-> "json", ok |-> TRUE, result |-> f, description |-> ""] : f \in Files}

\* the answers fetch(fileUrl) can meet: the request fails, the body cannot be
\* read, or a response with a status and a body of so many bytes
Downloads ==
    {[net |-> "error", ok |-> FALSE, statusText |-> "", bytes |-> 0],
     [net |-> "body", ok |-> TRUE, statusText |-> "OK", bytes |-> 0]}
    \cup {[net |-> "http", ok |-> FALSE, statusText |-> "Not Found", bytes |-> 9]}
    \cup {[net |-> "http", ok |-> TRUE, statusText |-> "OK", bytes |-> b] : b \in {0, 1024}}

\* the outcome of a download: it raised an Error with a message or returned a
\* DownloadFileResult; requests counts the fetch(fileUrl) calls, mkdir and
\* written tell whether the directory was created and the file written
Downloaded(raised, message, path, size, requests, dirMade, written) ==
    [raised |-> raised, message |-> message, file_path |-> path, file_size |-> size,
     requests |-> requests, mkdir |-> dirMade, written |-> written]

\* `if (!response.ok)` of downloadFile
ResponseOk_any(response) == TRUE
ResponseOk(response) == response.ok

\* TelegramClient.downloadFile(filePath, savePath): the catch block logs and
\* rethrows
downloadFile(filePath, savePath, response, mkdirOk, writeOk) ==
    IF response.net = "error" THEN Downloaded(TRUE, FetchError, "", 0, 1, FALSE, FALSE)
    ELSE IF ~ResponseOk(response)
         THEN Downloaded(TRUE, "Failed to download file: " \o response.statusText, "", 0,
                         1, FALSE, FALSE)
    ELSE IF response.net = "body" THEN Downloaded(TRUE, FetchError, "", 0, 1, FALSE, FALSE)
    ELSE IF ~mkdirOk THEN Downloaded(TRUE, "mkdir failed", "", 0, 1, FALSE, FALSE)
    ELSE IF ~writeOk THEN Downloaded(TRUE, "write failed", "", 0, 1, TRUE, FALSE)
    ELSE Downloaded(FALSE, "", savePath, response.bytes, 1, TRUE, TRUE)

\* `file.file_size && file.file_size > MAX_FILE_SIZE` of downloadFileById
TooLarge_inclusive(size) == size # NoSize /\ size # 0 /\ size >= MAX_FILE_SIZE
TooLarge(size) == size # NoSize /\ size # 0 /\ size > MAX_FILE_SIZE

\* savePath || path.join(tmpdir(), `telegram_${fileId}_..._${basename}`)
FinalSavePath(savePath, fileId, filePath) ==
    IF savePath # "" THEN savePath ELSE "tmp/telegram_" \o fileId \o "_" \o filePath

\* TelegramClient.downloadFileById(fileId, savePath)
downloadFileById(fileId, savePath, fileResponse, response, mkdirOk, writeOk) ==
    LET got == makeRequest(fileResponse) IN
    IF got.raised THEN Downloaded(TRUE, got.message, "", 0, 0, FALSE, FALSE)
    ELSE IF got.value.file_path = ""
         THEN Downloaded(TRUE, "File path not available in response", "", 0, 0, FALSE, FALSE)
    ELSE IF TooLarge(got.value.file_size)
         THEN Downloaded(TRUE, "File size " \o ToString(got.value.file_size)
                               \o " exceeds maximum limit of "
                               \o ToString(MAX_FILE_SIZE) \o " bytes",
                         "", 0, 0, FALSE, FALSE)
    ELSE downloadFile(got.value.file_path,
                      FinalSavePath(savePath, fileId, got.value.file_path),
                      response, mkdirOk, writeOk)

VARIABLES
    smFile,      \* StateManager alone: text of its backing file, Absent when there is none
    smDir,       \* StateManager alone: the directory of the backing file exists
    smState,     \* StateManager alone: this.state
    smLast,      \* StateManager alone: the latest call and how it ended
    lastWritten, \* history: offset of the latest setOffset whose write succeeded
    clLast,      \* TelegramClient alone: the latest request's answer and outcome
    pc,          \* position of the process inside Bot.start / PollingService.start
    isRunning,   \* PollingService.isRunning
    state,       \* StateManager.state, a record with the field offset
    file,        \* offset held by the backing file, NoFile when it does not exist
    reqOffset,   \* the local `offset` of poll(): offset of the latest getUpdates
    lastFetch,   \* latest getUpdates on the wire: none, error, rejected, empty, batch
    batch,       \* the local `updates` of poll()
    idx,         \* position of the for-of loop in batch
    remote,      \* which remote the process talks to: "api" or "any"
    calls,       \* history: processor calls made for the current batch, in order
    watch,       \* history: an update id, chosen freely, whose fate is recorded
    tried,       \* history: this process passed update `watch` to the processor
    okRun,       \* history: a call on `watch` returned normally in this process
    savedRun,    \* history: the cursor save after such a call succeeded in this process
    okPrev,      \* history: a call on `watch` returned normally in an earlier process
    savedPrev,   \* history: the cursor save after such a call succeeded in an earlier process
    maxOk,       \* history: largest update id whose call returned normally in this process
    epoch,       \* history: number of restarts so far
    wellBehaved, \* history: every batch so far was strictly ascending and at or above its offset
    loadFailed,  \* history: some load(), of this process or an earlier one, could not read the file
    clean,       \* history: every fetch, processor call and save of this process succeeded
    stoppedInFetch, \* history: stop() was called while a getUpdates call was in flight
    stoppedEarly, \* history: Bot.stop() was called before PollingService.start() began
    request,     \* the parameters of the latest getUpdates call of poll()
    loops,       \* PollingService alone: the position and locals of each start() call
    env,         \* handlers alone: process.env.ALLOWED_USER_ID
    allowedUserId, \* handlers alone: MessageHandler.allowedUserId
    commands,    \* handlers alone: CommandHandler.commands, from command to callback
    handled,     \* handlers alone: the latest handle() call and what it did
    download,    \* downloads alone: the latest download call and its outcome
    startup      \* history: the steps of Bot.start() after load(), each with its outcome

vars == <<pc, isRunning, state, file, reqOffset, lastFetch, batch, idx, remote,
          calls, watch, tried, okRun, savedRun, okPrev, savedPrev, maxOk,
          epoch, wellBehaved, loadFailed, clean, stoppedInFetch, stoppedEarly,
          request, smFile, smDir, smState, smLast, lastWritten, clLast, loops, env,
          allowedUserId, commands, handled, download, startup>>

\* the StateManager and the TelegramClient exercised on their own, and the
\* bot process
unit == <<smFile, smDir, smState, smLast, lastWritten, clLast>>
aside == <<loops, env, allowedUserId, commands, handled, download, startup>>
process == <<pc, isRunning, state, file, reqOffset, lastFetch, batch, idx, remote,
             calls, watch, tried, okRun, savedRun, okPrev, savedPrev, maxOk,
             epoch, wellBehaved, loadFailed, clean, stoppedInFetch, stoppedEarly,
             request>>

\* what no step of a running process changes, and the histories of the
\* running process
fixed == <<remote, watch, okPrev, savedPrev, epoch, stoppedEarly, unit, aside>>
runHist == <<tried, okRun, savedRun, maxOk>>

\* StateManager.getOffset
getOffset == state.offset

\* the histories follow update u: it is the watched one, on the documented
\* remote (a run of SpecAny keeps no history of single updates)
Watched(u) == remote = "api" /\ u = watch

\* ------------------------------------------------------------------- Init
\* a fresh process: `new Bot(token)` has constructed the StateManager with
\* offset 0 and the PollingService with isRunning = false
\* a call record of the StateManager: the operation, its argument, what it
\* logged as an error, whether it was the first call on this StateManager,
\* whether the file existed, whether it raised
Call(op, arg, cause, first, found, raised) ==
    [op |-> op, arg |-> arg, cause |-> cause, first |-> first, found |-> found,
     raised |-> raised]

\* `new StateManager(path)`: nothing called yet
Constructed == Call("new", 0, "none", FALSE, FALSE, FALSE)

\* nothing is exercised on its own
UnitIdle ==
    /\ smFile = Absent
    /\ smDir = FALSE
    /\ smState = InitialState
    /\ smLast = Constructed
    /\ lastWritten = NoId
    /\ clLast = <<>>

\* the inputs of the handlers and of the downloads
LoopIds == {1, 2}
Users == {5, 57}
EnvValues == {EnvUnset} \cup {EnvSet(s) : s \in {<<>>, <<"5">>, <<"5", "7">>, <<"0">>, <<"a">>}}
Names == {<<"D">>, <<"i", "d">>}
ArgLists == {<<>>, <<<<"d">>>>, <<<<"d">>, <<"D">>>>}
RECURSIVE JoinArgs(_)
JoinArgs(args) ==
    IF Len(args) = 0 THEN <<>> ELSE <<" ">> \o args[1] \o JoinArgs(Tail(args))
Texts ==
    {<<>>} \cup {p \o h \o JoinArgs(a) :
                    p \in {<<>>, <<"/">>},
                    h \in {<<"d">>, <<"D">>, <<"i">>, <<"i", "d">>, <<"I", "d">>},
                    a \in ArgLists}
Messages ==
    [from : {Undefined} \cup {Number(u) : u \in Users},
     text : {<<>>, <<"d">>, <<"/", "d">>, <<"/", "i", "d">>},
     document : BOOLEAN,
     photo : {"absent", "empty", "some"}]
SavePaths == {"", "downloads/a.pdf"}

\* a start() call not made yet; no handle() call yet; no download yet
NotStarted == [at |-> "none", offset |-> 0, batch |-> <<>>, idx |-> 0]
NoMessage == [from |-> Undefined, text |-> <<>>, document |-> FALSE, photo |-> "absent"]
Outcomes(dlOk, sendOk, cbOk) == [dl |-> dlOk, send |-> sendOk, cb |-> cbOk]
NoCall ==
    [op |-> "none", message |-> NoMessage, photos |-> <<>>, chosen |-> 0,
     ok |-> Outcomes(TRUE, TRUE, TRUE), did |-> Nothing]
NoDownload ==
    [op |-> "none", savePath |-> "",
     fileResponse |-> [net |-> "error", ok |-> FALSE, result |-> NoResult,
                       description |-> ""],
     response |-> [net |-> "error", ok |-> FALSE, statusText |-> "", bytes |-> 0],
     mkdirOk |-> FALSE, writeOk |-> FALSE,
     out |-> Downloaded(FALSE, "", "", 0, 0, FALSE, FALSE)]

\* `new Bot(token)` has constructed the CommandHandler with its default
\* commands and the MessageHandler; nothing else is exercised on its own
Constructors(e) ==
    /\ env = e
    /\ allowedUserId = AllowedUserId(e)
    /\ commands = DefaultCommands
    /\ handled = NoCall
AsideIdle ==
    /\ loops = [i \in LoopIds |-> NotStarted]
    /\ Constructors(EnvUnset)
    /\ download = NoDownload
    /\ startup = <<>>

InitProcess(kind) ==
    /\ pc = "boot"
    /\ isRunning = FALSE
    /\ state = [offset |-> 0]
    /\ file \in {NoFile} \cup (0..InitMaxOffset)
    /\ reqOffset = 0
    /\ lastFetch = "none"
    /\ batch = <<>>
    /\ idx = 0
    /\ remote = kind
    /\ calls = <<>>
    /\ watch \in Ids
    /\ tried = FALSE
    /\ okRun = FALSE
    /\ savedRun = FALSE
    /\ okPrev = FALSE
    /\ savedPrev = FALSE
    /\ maxOk = NoId
    /\ epoch = 0
    /\ wellBehaved = TRUE
    /\ loadFailed = FALSE
    /\ clean = TRUE
    /\ stoppedInFetch = FALSE
    /\ stoppedEarly = FALSE
    /\ request = NoRequest

InitWith(kind) ==
    /\ UnitIdle
    /\ AsideIdle
    /\ InitProcess(kind)

Init == InitWith("api")

\* ---------------------------------------------------------------- actions
\* StateManager.load(), awaited first by Bot.start()
Load ==
    /\ pc = "boot"
    /\ pc' = "starting"
    /\ \E mkdirOk \in BOOLEAN, ioOk \in BOOLEAN :
         IF file = NoFile
         THEN IF ~mkdirOk
              THEN \* ensureDirectoryExists raised: caught by load()
                   /\ ioOk
                   /\ state' = [offset |-> 0]
                   /\ clean' = FALSE
                   /\ UNCHANGED <<file, loadFailed>>
              ELSE \* save(): a failed write is caught inside save()
                   /\ file' = IF ioOk THEN state.offset ELSE file
                   /\ clean' = (clean /\ ioOk)
                   /\ UNCHANGED <<state, loadFailed>>
         ELSE /\ mkdirOk
              /\ state' = [offset |-> IF ioOk THEN LoadedOffset(file) ELSE 0]
              /\ loadFailed' = (loadFailed \/ ~ioOk)
              /\ UNCHANGED <<file, clean>>
    /\ UNCHANGED <<isRunning, reqOffset, request, lastFetch, batch, idx, calls, fixed, stoppedInFetch,
                   runHist, wellBehaved>>

\* PollingService.start(): isRunning = true, then the while loop
StartPolling ==
    /\ pc = "starting"
    /\ pc' = "top"
    /\ isRunning' = TRUE
    /\ UNCHANGED <<state, file, reqOffset, request, lastFetch, batch, idx, calls, fixed, stoppedInFetch,
                   runHist, wellBehaved, loadFailed, clean>>

\* while (this.isRunning) is false: start() returns
LoopExit ==
    /\ pc \in ExitPoints
    /\ ~LoopCondition(isRunning)
    /\ pc' = "returned"
    /\ UNCHANGED <<isRunning, state, file, reqOffset, request, lastFetch, batch, idx,
                   calls, fixed, stoppedInFetch, runHist, wellBehaved, loadFailed, clean>>

\* while (this.isRunning) is true: a new poll() reads the offset and calls
\* getUpdates; it has no updates yet
IssueFetch ==
    /\ pc = "top"
    /\ LoopCondition(isRunning)
    /\ pc' = "fetching"
    /\ reqOffset' = getOffset
    /\ request' = GetUpdatesParams(getOffset)
    /\ batch' = <<>>
    /\ idx' = 0
    /\ calls' = <<>>
    /\ UNCHANGED <<isRunning, state, file, lastFetch, fixed, stoppedInFetch, runHist,
                   wellBehaved, loadFailed, clean>>

\* the for-of loop of poll() after the update at position idx is dealt with
\* (cs: the calls so far, n: the next position): the next update is passed to
\* the processor, or poll() returns to the while loop
Continue(cs, n) ==
    IF n <= Len(batch)
    THEN /\ pc' = "invoke"
         /\ idx' = n
         /\ calls' = Append(cs, [id |-> batch[n], res |-> "running"])
         /\ tried' = (tried \/ Watched(batch[n]))
    ELSE /\ pc' = "top"
         /\ idx' = Len(batch) + 1
         /\ calls' = cs
         /\ tried' = tried

\* the calls with the outcome of the latest one recorded: the loop awaits
\* onUpdate and setOffset, so a call is over before the loop moves on
Finish_unawaited(res) == calls
Finish(res) == [calls EXCEPT ![Len(calls)].res = res]

\* getUpdates raises: poll() rejects, start() logs and sleeps
FetchRaises ==
    /\ pc = "fetching"
    /\ \E resp \in Responses(remote, reqOffset) :
         /\ makeRequest(resp).raised
         /\ lastFetch' = Wire(resp)
    /\ pc' = AfterPollRaises
    /\ clean' = FALSE
    /\ UNCHANGED <<isRunning, state, file, reqOffset, request, batch, idx, calls, fixed, stoppedInFetch,
                   runHist, wellBehaved, loadFailed>>

\* getUpdates returns no update: poll() returns
FetchEmpty ==
    /\ pc = "fetching"
    /\ \E resp \in Responses(remote, reqOffset) :
         /\ ~makeRequest(resp).raised
         /\ Len(makeRequest(resp).value) = 0
         /\ lastFetch' = Wire(resp)
    /\ pc' = "top"
    /\ UNCHANGED <<isRunning, state, file, reqOffset, request, batch, idx, calls, fixed, stoppedInFetch,
                   runHist, wellBehaved, loadFailed, clean>>

\* getUpdates returns updates: the first one is passed to the processor
FetchBatch ==
    /\ pc = "fetching"
    /\ \E resp \in Responses(remote, reqOffset) :
         LET r == makeRequest(resp) IN
         /\ ~r.raised
         /\ Len(r.value) > 0
         /\ batch' = r.value
         /\ pc' = "invoke"
         /\ idx' = 1
         /\ calls' = <<[id |-> r.value[1], res |-> "running"]>>
         /\ tried' = (tried \/ Watched(r.value[1]))
         /\ wellBehaved' = (wellBehaved /\ Ascending(r.value) /\ AtOrAbove(r.value, reqOffset))
         /\ lastFetch' = Wire(resp)
    /\ UNCHANGED <<isRunning, state, file, reqOffset, request, fixed, stoppedInFetch, okRun, savedRun,
                   maxOk, loadFailed, clean>>

\* await setTimeout(5000) is over
BackoffDone ==
    /\ pc = "backoff"
    /\ pc' = "top"
    /\ UNCHANGED <<isRunning, state, file, reqOffset, request, lastFetch, batch, idx,
                   calls, fixed, stoppedInFetch, runHist, wellBehaved, loadFailed, clean>>

\* onUpdate(update) returns: setOffset(update_id + 1) assigns state.offset and
\* starts save()
OnUpdateReturns ==
    /\ pc = "invoke"
    /\ pc' = "saving"
    /\ state' = [offset |-> OffsetAfter(batch[idx])]
    /\ calls' = Finish("saving")
    /\ okRun' = (okRun \/ Watched(batch[idx]))
    /\ maxOk' = IF remote = "api" /\ batch[idx] > maxOk THEN batch[idx] ELSE maxOk
    /\ UNCHANGED <<isRunning, file, reqOffset, request, lastFetch, batch, idx, fixed, stoppedInFetch,
                   tried, savedRun, wellBehaved, loadFailed, clean>>

\* onUpdate(update) raises: the catch logs, setOffset is not called
OnUpdateRaises ==
    /\ pc = "invoke"
    /\ state' = [offset |-> OffsetAfterRaise(state.offset, reqOffset, batch[idx])]
    /\ Continue(Finish("raise"), IndexAfterRaise(idx, Len(batch)))
    /\ clean' = FALSE
    /\ UNCHANGED <<isRunning, file, reqOffset, request, lastFetch, batch, fixed, stoppedInFetch, okRun,
                   savedRun, maxOk, wellBehaved, loadFailed>>

\* save() inside setOffset is over: the file holds the offset, or the failure
\* was logged inside save(); the for-of loop goes on either way
SaveDone ==
    /\ pc = "saving"
    /\ \E ioOk \in BOOLEAN :
         /\ file' = IF ioOk THEN state.offset ELSE file
         /\ state' = AfterSave(state, file, ioOk)
         /\ savedRun' = (savedRun \/ (ioOk /\ Watched(batch[idx])))
         /\ clean' = (clean /\ ioOk)
         /\ Continue(Finish(IF ioOk THEN "saved" ELSE "savefail"), NextIndex(idx))
    /\ UNCHANGED <<isRunning, reqOffset, request, lastFetch, batch, fixed, stoppedInFetch,
                   okRun, maxOk, wellBehaved, loadFailed>>

\* PollingService.stop(), called from outside at any time
Stop ==
    /\ isRunning' = FALSE
    /\ stoppedInFetch' = (stoppedInFetch \/ pc = "fetching")
    /\ UNCHANGED <<pc, state, file, reqOffset, request, lastFetch, batch, idx, calls,
                   fixed, runHist, wellBehaved, loadFailed, clean>>

\* the process ends at any point (a crash, or process.exit after stop) and a
\* new process is started on the same backing file: a new StateManager and a
\* new PollingService. A write in flight has reached the file or has not.
Restart ==
    /\ epoch < MaxRestarts
    /\ epoch' = epoch + 1
    /\ pc' = "boot"
    /\ isRunning' = FALSE
    /\ state' = [offset |-> 0]
    /\ reqOffset' = 0
    /\ request' = NoRequest
    /\ stoppedEarly' = FALSE
    /\ lastFetch' = "none"
    /\ batch' = <<>>
    /\ idx' = 0
    /\ calls' = <<>>
    /\ tried' = FALSE
    /\ okRun' = FALSE
    /\ savedRun' = FALSE
    /\ maxOk' = NoId
    /\ clean' = FALSE
    /\ stoppedInFetch' = FALSE
    /\ okPrev' = (okPrev \/ okRun)
    /\ \E landed \in BOOLEAN :
         IF pc = "saving"
         THEN /\ file' = IF landed THEN state.offset ELSE file
              /\ savedPrev' = (savedPrev \/ savedRun \/ (landed /\ Watched(batch[idx])))
         ELSE /\ landed
              /\ savedPrev' = (savedPrev \/ savedRun)
              /\ UNCHANGED file
    /\ UNCHANGED <<remote, watch, wellBehaved, loadFailed, unit, aside>>

Next ==
    \/ Load
    \/ StartPolling
    \/ LoopExit
    \/ IssueFetch
    \/ FetchRaises
    \/ FetchEmpty
    \/ FetchBatch
    \/ BackoffDone
    \/ OnUpdateReturns
    \/ OnUpdateRaises
    \/ SaveDone
    \/ Stop

\* one process on the documented remote
Spec == Init /\ [][Next]_vars

\* one process on a remote that may return any batch
InitAny == InitWith("any") /\ watch = 0
SpecAny == InitAny /\ [][Next]_vars

\* processes restarted on the same backing file, on the documented remote
NextRestart == Next \/ Restart
SpecRestart == Init /\ [][NextRestart]_vars

\* Bot.stop() while Bot.start() is still awaiting load(), getMe() or
\* registerBotCommands(): PollingService.stop() on a service not started yet
EarlyStop ==
    /\ pc \in {"boot", "starting"}
    /\ ~stoppedEarly
    /\ isRunning' = FALSE
    /\ stoppedEarly' = TRUE
    /\ UNCHANGED <<pc, state, file, reqOffset, request, lastFetch, batch, idx, calls,
                   remote, watch, okPrev, savedPrev, epoch, unit, aside, stoppedInFetch,
                   runHist, wellBehaved, loadFailed, clean>>

\* SIGINT or SIGTERM while the process awaits something: shutdown() calls
\* bot.stop() and then process.exit(0). A write in flight has reached the file
\* or has not; whatever was under way stays as it was.
Shutdown ==
    /\ pc \in {"boot", "starting", "fetching", "invoke", "saving", "backoff"}
    /\ pc' = "exited"
    /\ isRunning' = FALSE
    /\ stoppedInFetch' = (stoppedInFetch \/ pc = "fetching")
    /\ \E landed \in BOOLEAN :
         IF pc = "saving"
         THEN file' = IF landed THEN state.offset ELSE file
         ELSE landed /\ file' = file
    /\ UNCHANGED <<state, reqOffset, request, lastFetch, batch, idx, calls, fixed,
                   runHist, wellBehaved, loadFailed, clean>>

\* one process with the callers of index.ts and of the Bot: signals, and a
\* stop() during start-up
NextBot ==
    \/ Next
    \/ EarlyStop
    \/ Shutdown
SpecBot == Init /\ [][NextBot]_vars

\* one process whose awaited operations all come to an end: the remote
\* answers or the request fails (the long poll has a timeout), the processor
\* returns or raises, a write ends, the sleep is over, and the loop condition
\* is read when the loop is at its head
Fairness ==
    /\ WF_vars(FetchRaises \/ FetchEmpty \/ FetchBatch)
    /\ WF_vars(OnUpdateReturns \/ OnUpdateRaises)
    /\ WF_vars(SaveDone)
    /\ WF_vars(BackoffDone)
    /\ WF_vars(LoopExit)
SpecLive == Init /\ [][Next]_vars /\ Fairness

\* onUpdate returns on an update other than the watched one
PoisonReturns == OnUpdateReturns /\ batch[idx] # watch

\* one process whose processor raises on the watched update every time it is
\* passed, with getUpdates never failing, stop() never called and every
\* awaited operation coming to an end
NextPoison ==
    \/ Load
    \/ StartPolling
    \/ IssueFetch
    \/ FetchEmpty
    \/ FetchBatch
    \/ PoisonReturns
    \/ OnUpdateRaises
    \/ SaveDone
FairnessPoison ==
    /\ WF_vars(Load)
    /\ WF_vars(StartPolling)
    /\ WF_vars(IssueFetch)
    /\ WF_vars(FetchEmpty \/ FetchBatch)
    /\ WF_vars(PoisonReturns \/ OnUpdateRaises)
    /\ WF_vars(SaveDone)
SpecPoison == Init /\ [][NextPoison]_vars /\ FairnessPoison

\* ------------------------- the StateManager and the TelegramClient alone
\* the offsets handed to setOffset
Offsets == 0..InitMaxOffset

\* StateManager.getOffset on the StateManager alone
smGetOffset == ReadOffset(smState).value

\* a new StateManager is constructed on the same path
UnitNew ==
    /\ smLast.op # "new"
    /\ smState' = InitialState
    /\ smLast' = Constructed
    /\ UNCHANGED <<smFile, smDir, lastWritten, clLast, process, aside>>

\* await stateManager.load()
UnitLoad ==
    /\ \E mkdirOk \in BOOLEAN, readOk \in BOOLEAN, writeOk \in BOOLEAN :
         LET r == load(smState, smFile, smDir, mkdirOk, readOk, writeOk) IN
         /\ smState' = r.state
         /\ smFile' = r.file
         /\ smDir' = r.dir
         /\ smLast' = Call("load", 0, r.cause, smLast.op = "new", smFile # Absent, FALSE)
    /\ UNCHANGED <<lastWritten, clLast, process, aside>>

\* await stateManager.setOffset(n)
UnitSetOffset ==
    /\ \E n \in Offsets, mkdirOk \in BOOLEAN, writeOk \in BOOLEAN :
         LET r == setOffset(smState, smFile, smDir, n, mkdirOk, writeOk) IN
         /\ smState' = r.state
         /\ smFile' = r.file
         /\ smDir' = r.dir
         /\ smLast' = Call("setOffset", n, r.cause, smLast.op = "new", smFile # Absent,
                           r.raised)
         /\ lastWritten' = IF ~r.raised /\ r.cause = "none" THEN n ELSE lastWritten
    /\ UNCHANGED <<clLast, process, aside>>

\* await client.getUpdates(params), or any other method: one makeRequest
UnitRequest ==
    /\ \E resp \in Responses("api", 0) :
         clLast' = <<[resp |-> resp, out |-> makeRequest(resp)]>>
    /\ UNCHANGED <<smFile, smDir, smState, smLast, lastWritten, process, aside>>

\* the bot process is not started; the backing file is absent or holds any of
\* the texts, in a directory that exists if the file does
InitUnit ==
    /\ InitProcess("api")
    /\ file = NoFile
    /\ watch = 0
    /\ smFile \in {Absent} \cup FileContents
    /\ smDir \in BOOLEAN
    /\ (smFile # Absent => smDir)
    /\ smState = InitialState
    /\ smLast = Constructed
    /\ lastWritten = NoId
    /\ clLast = <<>>
    /\ AsideIdle

NextUnit ==
    \/ UnitNew
    \/ UnitLoad
    \/ UnitSetOffset
    \/ UnitRequest

SpecUnit == InitUnit /\ [][NextUnit]_vars

\* -------------------------------------------------- Bot.start step by step
\* a step of Bot.start() and how it ended
Step(name, ok) == [step |-> name, ok |-> ok]

\* where Bot.start() is after registerBotCommands: setMyCommands raised and
\* the catch block of registerBotCommands logged it, or it returned
AfterRegister_propagates(ok) == IF ok THEN "ready" ELSE "rejected"
AfterRegister(ok) == "ready"

\* where Bot.start() is after getMe: its error is logged and thrown again by
\* the catch block of Bot.start(), and index.ts exits with code 1
AfterGetMe(ok) == IF ok THEN "registering" ELSE "rejected"

\* await this.client.getMe(), after load()
GetMe ==
    /\ pc = "starting"
    /\ \E resp \in Responses("api", 0) :
         LET ok == ~makeRequest(resp).raised IN
         /\ pc' = AfterGetMe(ok)
         /\ startup' = Append(startup, Step("getMe", ok))
    /\ UNCHANGED <<isRunning, state, file, reqOffset, request, lastFetch, batch, idx, calls,
                   remote, watch, okPrev, savedPrev, epoch, stoppedEarly, unit, loops, env,
                   allowedUserId, commands, handled, download, stoppedInFetch, runHist,
                   wellBehaved, loadFailed, clean>>

\* await this.commandHandler.registerBotCommands(): one setMyCommands
RegisterBotCommands ==
    /\ pc = "registering"
    /\ \E resp \in Responses("api", 0) :
         LET ok == ~makeRequest(resp).raised IN
         /\ pc' = AfterRegister(ok)
         /\ startup' = Append(startup, Step("registerBotCommands", ok))
    /\ UNCHANGED <<isRunning, state, file, reqOffset, request, lastFetch, batch, idx, calls,
                   remote, watch, okPrev, savedPrev, epoch, stoppedEarly, unit, loops, env,
                   allowedUserId, commands, handled, download, stoppedInFetch, runHist,
                   wellBehaved, loadFailed, clean>>

\* this.pollingService.start(...): isRunning = true, then the while loop
BeginPolling ==
    /\ pc = "ready"
    /\ pc' = "top"
    /\ isRunning' = TRUE
    /\ startup' = Append(startup, Step("start", TRUE))
    /\ UNCHANGED <<state, file, reqOffset, request, lastFetch, batch, idx, calls,
                   remote, watch, okPrev, savedPrev, epoch, stoppedEarly, unit, loops, env,
                   allowedUserId, commands, handled, download, stoppedInFetch, runHist,
                   wellBehaved, loadFailed, clean>>

\* one process with the steps of Bot.start() taken one at a time
NextStart ==
    \/ Load
    \/ GetMe
    \/ RegisterBotCommands
    \/ BeginPolling
    \/ LoopExit
    \/ IssueFetch
    \/ FetchRaises
    \/ FetchEmpty
    \/ FetchBatch
    \/ BackoffDone
    \/ OnUpdateReturns
    \/ OnUpdateRaises
    \/ SaveDone
    \/ Stop

SpecStart == Init /\ [][NextStart]_vars

\* ------------------------------------------- the PollingService alone
\* start() and stop() called from outside in any order on one PollingService
\* whose StateManager has been loaded; every start() call has its own
\* position and its own locals of poll()
Active == {i \in LoopIds : loops[i].at \notin {"none", "done"}}
At(i, pos) == loops[i].at = pos
Move(i, pos) == [loops EXCEPT ![i].at = pos]
rest == <<pc, file, reqOffset, lastFetch, batch, idx, remote, calls, watch, tried,
          okRun, savedRun, okPrev, savedPrev, maxOk, epoch, wellBehaved, loadFailed,
          clean, stoppedInFetch, stoppedEarly, request, unit, env, allowedUserId,
          commands, handled, download, startup>>

\* start(onUpdate) is called: isRunning = true, then the while loop
ServiceStart(i) ==
    /\ At(i, "none")
    /\ \A j \in LoopIds : j < i => ~At(j, "none")
    /\ isRunning' = TRUE
    /\ loops' = Move(i, "top")
    /\ UNCHANGED <<state, rest>>

\* stop() is called
ServiceStop ==
    /\ isRunning' = FALSE
    /\ UNCHANGED <<loops, state, rest>>

\* the while condition is false: this start() returns
LoopReturns(i) ==
    /\ At(i, "top")
    /\ ~LoopCondition(isRunning)
    /\ loops' = Move(i, "done")
    /\ UNCHANGED <<isRunning, state, rest>>

\* poll(): the cursor is read and getUpdates is called
LoopFetch(i) ==
    /\ At(i, "top")
    /\ LoopCondition(isRunning)
    /\ loops' = [loops EXCEPT ![i] = [at |-> "fetching", offset |-> getOffset,
                                       batch |-> <<>>, idx |-> 0]]
    /\ UNCHANGED <<isRunning, state, rest>>

\* getUpdates raised: the catch block of start() sleeps
LoopFetchRaises(i) ==
    /\ At(i, "fetching")
    /\ loops' = Move(i, AfterPollRaises)
    /\ UNCHANGED <<isRunning, state, rest>>
LoopBackoffDone(i) ==
    /\ At(i, "backoff")
    /\ loops' = Move(i, "top")
    /\ UNCHANGED <<isRunning, state, rest>>

\* getUpdates returned a batch, empty or not
LoopFetched(i) ==
    /\ At(i, "fetching")
    /\ \E b \in RemoteBatches("api", loops[i].offset) :
         loops' = [loops EXCEPT ![i].batch = b,
                                ![i].idx = IF Len(b) = 0 THEN 0 ELSE 1,
                                ![i].at = IF Len(b) = 0 THEN "top" ELSE "invoke"]
    /\ UNCHANGED <<isRunning, state, rest>>

\* the position after the for-of loop moved to index n
LoopAt(i, n) ==
    [loops EXCEPT ![i].idx = n,
                  ![i].at = IF n > Len(loops[i].batch) THEN "top" ELSE "invoke"]

\* onUpdate(update) returned: setOffset assigns the cursor and awaits save()
LoopOnUpdateReturns(i) ==
    /\ At(i, "invoke")
    /\ state' = [offset |-> OffsetAfter(loops[i].batch[loops[i].idx])]
    /\ loops' = Move(i, "saving")
    /\ UNCHANGED <<isRunning, rest>>

\* onUpdate(update) raised: logged, the for-of loop goes on
LoopOnUpdateRaises(i) ==
    /\ At(i, "invoke")
    /\ loops' = LoopAt(i, IndexAfterRaise(loops[i].idx, Len(loops[i].batch)))
    /\ UNCHANGED <<isRunning, state, rest>>

\* save() came to its end, the file written or not
LoopSaveDone(i) ==
    /\ At(i, "saving")
    /\ loops' = LoopAt(i, NextIndex(loops[i].idx))
    /\ UNCHANGED <<isRunning, state, rest>>

InitAlone ==
    /\ InitWith("api")
    /\ file = NoFile
    /\ watch = 0

NextLoops ==
    \/ ServiceStop
    \/ \E i \in LoopIds :
         \/ ServiceStart(i)
         \/ LoopReturns(i)
         \/ LoopFetch(i)
         \/ LoopFetchRaises(i)
         \/ LoopBackoffDone(i)
         \/ LoopFetched(i)
         \/ LoopOnUpdateReturns(i)
         \/ LoopOnUpdateRaises(i)
         \/ LoopSaveDone(i)

SpecLoops == InitAlone /\ [][NextLoops]_vars

\* ------------------------------- the CommandHandler and the MessageHandler
\* commandHandler.registerCommand(name, description, callback)
RegisterCommand ==
    /\ \E name \in Names, callback \in Callbacks :
         commands' = registerCommand(commands, name, callback)
    /\ handled' = NoCall
    /\ UNCHANGED <<process, unit, startup, loops, env, allowedUserId, download>>

\* await commandHandler.handle(message), the callback returning or raising
HandleCommand ==
    /\ \E text \in Texts, cbOk \in BOOLEAN :
         handled' = [NoCall EXCEPT !.op = "command", !.message.text = text,
                                   !.ok.cb = cbOk,
                                   !.did = handleCommand(commands, text, cbOk)]
    /\ UNCHANGED <<process, unit, startup, loops, env, allowedUserId, commands, download>>

\* await messageHandler.handle(message), as UpdateHandler.handle does
\* (the outcome of a call that is not made is left at TRUE)
HandleMessage ==
    /\ \E message \in Messages, dlOk \in BOOLEAN, sendOk \in BOOLEAN, cbOk \in BOOLEAN :
         LET did == handleMessage(allowedUserId, commands, message, dlOk, sendOk, cbOk) IN
         /\ did.downloads = 0 => dlOk
         /\ (did.sent = 0 \/ did.callbacks # <<>>) => sendOk
         /\ did.callbacks = <<>> => cbOk
         /\ handled' = [NoCall EXCEPT !.op = "message", !.message = message,
                                      !.ok = Outcomes(dlOk, sendOk, cbOk), !.did = did]
    /\ UNCHANGED <<process, unit, startup, loops, env, allowedUserId, commands, download>>

\* the handlers are constructed in a process with any ALLOWED_USER_ID
InitHandlers ==
    /\ InitProcess("api")
    /\ file = NoFile
    /\ watch = 0
    /\ UnitIdle
    /\ loops = [i \in LoopIds |-> NotStarted]
    /\ download = NoDownload
    /\ startup = <<>>
    /\ \E e \in EnvValues : Constructors(e)

NextHandlers ==
    \/ RegisterCommand
    \/ HandleCommand
    \/ HandleMessage

SpecHandlers == InitHandlers /\ [][NextHandlers]_vars

\* ------------------------------------------------- handlePhotoMessage alone
\* the arrays message.photo can be
PhotoSizes ==
    [file_size : {NoSize, 50, 100}, width : {1, 2}, height : {2}]
PhotoArrays ==
    {<<a>> : a \in PhotoSizes}
    \cup {<<a, b>> : a \in PhotoSizes, b \in PhotoSizes}
    \cup {<<a, b, c>> : a \in PhotoSizes, b \in PhotoSizes, c \in PhotoSizes}

\* await this.handlePhotoMessage(message) with a non-empty array
HandlePhoto ==
    /\ \E photos \in PhotoArrays, dlOk \in BOOLEAN, sendOk \in BOOLEAN :
         /\ dlOk => sendOk
         /\ handled' = [NoCall EXCEPT !.op = "photo", !.message.photo = "some",
                                      !.photos = photos, !.chosen = largestPhoto(photos),
                                      !.ok = Outcomes(dlOk, sendOk, TRUE),
                                      !.did = downloadOrReport("photo", dlOk, sendOk)]
    /\ UNCHANGED <<process, unit, startup, loops, env, allowedUserId, commands, download>>

SpecPhoto == InitAlone /\ [][HandlePhoto]_vars

\* ------------------------------------------ the TelegramClient's downloads
\* await client.downloadFile(filePath, savePath)
DownloadFile ==
    /\ \E savePath \in SavePaths \ {""}, response \in Downloads,
          mkdirOk \in BOOLEAN, writeOk \in BOOLEAN :
         download' = [op |-> "downloadFile", savePath |-> savePath,
                      fileResponse |-> NoDownload.fileResponse, response |-> response, mkdirOk |-> mkdirOk, writeOk |-> writeOk,
                      out |-> downloadFile("documents/file_1.pdf", savePath, response,
                                           mkdirOk, writeOk)]
    /\ UNCHANGED <<process, unit, startup, loops, env, allowedUserId, commands, handled>>

\* await client.downloadFileById(fileId, savePath), savePath "" standing for
\* none given
DownloadFileById ==
    /\ \E savePath \in SavePaths, fileResponse \in FileResponses, response \in Downloads,
          mkdirOk \in BOOLEAN, writeOk \in BOOLEAN :
         download' = [op |-> "downloadFileById", savePath |-> savePath,
                      fileResponse |-> fileResponse, response |-> response,
                      mkdirOk |-> mkdirOk, writeOk |-> writeOk,
                      out |-> downloadFileById("file_1", savePath, fileResponse, response,
                                               mkdirOk, writeOk)]
    /\ UNCHANGED <<process, unit, startup, loops, env, allowedUserId, commands, handled>>

NextDownload ==
    \/ DownloadFile
    \/ DownloadFileById

SpecDownload == InitAlone /\ [][NextDownload]_vars

\* ------------------------------------------------- vocabulary of the claims
\* the for-of loop has dealt with every update of a non-empty batch
BatchDone == Len(batch) > 0 /\ idx = Len(batch) + 1

LastId == batch[Len(batch)]

\* a processor call that is over, together with the save that followed it
Finished(res) == res \in {"saved", "savefail", "raise"}

\* this step ends the processor call on batch[idx] (a restart ends nothing)
InvocationEnds ==
    /\ pc = "invoke"
    /\ epoch' = epoch
    /\ calls'[idx].res # "running"

\* this step passes update u to the processor
InvocationStartsOn(u) ==
    /\ pc' = "invoke"
    /\ epoch' = epoch
    /\ (pc # "invoke" \/ idx' # idx)
    /\ batch'[idx'] = u

\* this step is getUpdates coming back with answer w (see Wire)
FetchEndsWith(w) ==
    /\ pc = "fetching"
    /\ pc' # "fetching"
    /\ epoch' = epoch
    /\ lastFetch' = w

\* ----------------------------------------------------------------- claims

\* C1: the updates of a non-empty batch are passed to the processor one at a
\* time in the order delivered: the k calls made so far are on the first k
\* updates, every call but the latest is over together with its cursor save,
\* and a finished batch has had one call per update. When every call and every
\* save of the batch succeeded, the file holds the last update_id + 1.
C1_Ordering ==
    /\ Len(calls) <= Len(batch)
    /\ \A i \in 1..Len(calls) : calls[i].id = batch[i]
    /\ \A i \in 1..(Len(calls) - 1) : Finished(calls[i].res)
    /\ (pc \in {"invoke", "saving"} =>
           /\ Len(calls) = idx
           /\ calls[idx].res = (IF pc = "invoke" THEN "running" ELSE "saving"))
    /\ (BatchDone =>
           /\ Len(calls) = Len(batch)
           /\ \A i \in 1..Len(calls) : Finished(calls[i].res)
           /\ ((\A i \in 1..Len(calls) : calls[i].res = "saved") =>
                  /\ file = LastId + 1
                  /\ getOffset = LastId + 1))

\* C1 witness: a batch of two updates is done, both saved
C1_Witness ==
    /\ BatchDone
    /\ Len(batch) = 2
    /\ calls[1].res = "saved"
    /\ calls[2].res = "saved"
    /\ file = LastId + 1

C3_NoFailedUpdateBelowCursor ==
    (~loadFailed /\ tried /\ file > watch) => okRun

C5_Original ==
    [][epoch' = epoch => (getOffset' >= getOffset /\ file' >= file)]_vars

\* C5 amended: within one process neither the in-memory cursor nor the offset
\* in the backing file decreases, as long as every batch is strictly ascending
\* and at or above the requested offset and load() could read the file.
C5_Amended ==
    [][(epoch' = epoch /\ wellBehaved' /\ ~loadFailed') =>
          (getOffset' >= getOffset /\ file' >= file)]_vars

\* C5 witness: a well-behaved batch is over in which one call raised and
\* another returned and was saved, so that cursor and file have moved up
C5_Witness ==
    /\ wellBehaved
    /\ ~loadFailed
    /\ pc = "top"
    /\ lastFetch = "batch"
    /\ \E i \in 1..Len(calls) : calls[i].res = "raise"
    /\ \E i \in 1..Len(calls) : calls[i].res = "saved" /\ file = calls[i].id + 1
    /\ file = getOffset

\* C6 as stated: while every fetch, processor call and save has succeeded, the
\* offset in the file never decreases and, between two poll cycles, it is one
\* more than the largest update id processed so far.
C6_Original ==
    [][(epoch' = epoch /\ clean') =>
          /\ file' >= file
          /\ ((pc' = "top" /\ maxOk' # NoId) => file' = maxOk' + 1)]_vars

\* C6 amended: the same, for a process whose load() could read the file.
C6_Amended ==
    [][(epoch' = epoch /\ clean' /\ ~loadFailed') =>
          /\ file' >= file
          /\ ((pc' = "top" /\ maxOk' # NoId) => file' = maxOk' + 1)]_vars

\* C6 witness: after a cycle of an entirely successful run that started from
\* a loaded offset above 0, the file holds max(update_id) + 1
C6_Witness ==
    /\ clean
    /\ ~loadFailed
    /\ pc = "top"
    /\ maxOk = MaxId
    /\ reqOffset > 0
    /\ file = maxOk + 1

\* the call at position i of the batch raised and every later call of the
\* batch returned and had its cursor saved
RaisedThenAllSaved(i) ==
    /\ calls[i].res = "raise"
    /\ \A j \in (i + 1)..Len(calls) : calls[j].res = "saved"

C9_FetchFailure ==
    [][/\ (FetchEndsWith("error") \/ FetchEndsWith("rejected")) =>
             /\ pc' = "backoff"
             /\ UNCHANGED <<state, file, calls, reqOffset>>
       /\ (pc = "backoff" /\ pc' # pc /\ epoch' = epoch) =>
             /\ pc' = "top"
             /\ lastFetch \in {"error", "rejected"}
             /\ UNCHANGED <<state, file, calls, reqOffset, lastFetch>>
       /\ (pc = "top" /\ lastFetch \in {"error", "rejected"}
               /\ pc' # pc /\ epoch' = epoch) =>
             /\ UNCHANGED <<state, file, calls>>
             /\ IF isRunning
                THEN pc' = "fetching" /\ reqOffset' = reqOffset
                ELSE pc' = "returned"]_vars

\* C9 witness: after an ok-false answer and the sleep, the fetch is issued
\* again at the offset of the failed one
C9_Witness ==
    /\ pc = "fetching"
    /\ lastFetch = "rejected"
    /\ reqOffset = getOffset
    /\ reqOffset > 0

\* C10: a getUpdates that answers with an empty batch starts no processor
\* call, leaves cursor and file alone and takes the loop straight back to its
\* head, from where the next fetch is issued (or start() returns if stopped).
C10_EmptyBatch ==
    [][/\ FetchEndsWith("empty") =>
             /\ pc' = "top"
             /\ UNCHANGED <<state, file, calls, batch, idx>>
       /\ (pc = "top" /\ lastFetch = "empty" /\ pc' # pc /\ epoch' = epoch) =>
             /\ UNCHANGED <<state, file, calls>>
             /\ pc' = (IF isRunning THEN "fetching" ELSE "returned")]_vars

\* C10 witness: the loop is back at its head after an empty batch, running
C10_Witness ==
    /\ pc = "top"
    /\ lastFetch = "empty"
    /\ isRunning
    /\ getOffset > 0

\* the positions of start() inside its while loop
LoopPositions == {"top", "fetching", "backoff", "invoke", "saving"}

\* this step is start() returning
StartReturns == pc # "returned" /\ pc' = "returned"

\* positions of the calls that are under way: the processor is running, or
\* the cursor save that follows it is
Running == {i \in 1..Len(calls) : calls[i].res = "running"}
Saving == {i \in 1..Len(calls) : calls[i].res = "saving"}

\* C11: a getUpdates call in flight when stop() is called is not interrupted:
\* the next thing start() does is take its answer (a failure, an empty batch or
\* a batch) like that of any other call; and start() returns only from the
\* head of its loop, when every processor call that started is over together
\* with the cursor save that followed it and the batch has been gone through.
C11_CooperativeStop ==
    [][/\ (pc = "fetching" /\ ~isRunning /\ pc' # pc) =>
             /\ FetchEndsWith(lastFetch')
             /\ lastFetch' \in {"error", "rejected", "empty", "batch"}
             /\ pc' = (IF lastFetch' = "batch" THEN "invoke"
                       ELSE IF lastFetch' = "empty" THEN "top" ELSE "backoff")
       /\ StartReturns =>
             /\ pc = "top"
             /\ \A i \in 1..Len(calls) : Finished(calls[i].res)
             /\ Len(calls) = Len(batch)
             /\ (Len(batch) > 0 => BatchDone)]_vars

\* C11 witness: stop() was called during a getUpdates call that then returned
\* two updates; both were processed and saved before start() returned
C11_Witness ==
    /\ pc = "returned"
    /\ stoppedInFetch
    /\ Len(batch) = 2
    /\ BatchDone
    /\ calls[1].res = "saved"
    /\ calls[2].res = "saved"
    /\ file = LastId + 1

\* C12: once stop() has been called while start() is in its loop, start()
\* eventually returns (the fetch, the processor calls, the saves and the sleep
\* coming to an end); a getUpdates call is issued only from the head of the
\* loop with the flag still set, and nothing follows the return.
C12_StopTerminates ==
    /\ [][/\ (pc # "fetching" /\ pc' = "fetching") => (pc = "top" /\ isRunning)
          /\ pc = "returned" => pc' = "returned"]_vars
    /\ ((~isRunning /\ pc \in LoopPositions) ~> (pc = "returned"))

\* C12 witness: start() has returned after a run in which the last getUpdates
\* call failed and stop() was called during the sleep or right after it
C12_Witness ==
    /\ pc = "returned"
    /\ ~isRunning
    /\ lastFetch \in {"error", "rejected"}
    /\ ~stoppedInFetch

\* C13: start() never rejects, and it has returned only if stop() was called:
\* the flag is down.
C13_OnlyStopEnds ==
    /\ pc # "rejected"
    /\ (pc = "returned" => ~isRunning)

\* C13 witness: the loop is at its head, still running, after a run that saw
\* a failed write and then a batch whose processor call raised
C13_Witness ==
    /\ pc = "top"
    /\ isRunning
    /\ file < getOffset
    /\ lastFetch = "batch"
    /\ \E i \in 1..Len(calls) : calls[i].res = "raise"

\* C14: at most one of a getUpdates call, a processor call, a cursor save and
\* a backoff sleep is under way; a call is under way exactly when the loop is
\* at it, and it is the one on the update the loop is at.
C14_SingleWorker ==
    /\ Cardinality(Running) + Cardinality(Saving)
         + (IF pc = "fetching" THEN 1 ELSE 0)
         + (IF pc = "backoff" THEN 1 ELSE 0) <= 1
    /\ (Running # {} <=> pc = "invoke")
    /\ (Saving # {} <=> pc = "saving")
    /\ (Running \cup Saving) \subseteq {idx}

\* C14 witness: the save after the second update of a batch is under way,
\* the first update being done with
C14_Witness ==
    /\ pc = "saving"
    /\ idx = 2
    /\ Finished(calls[1].res)
    /\ Saving = {2}

\* the latest call on the StateManager was a load() that found no backing
\* file and met no error in creating the directory and writing the file
LoadCreated == smLast.op = "load" /\ ~smLast.found /\ smLast.cause = "none"

\* the directory exists, the file holds {"offset": 0} and getOffset() is 0
ColdStartState ==
    /\ smDir
    /\ smFile = JS("offset", 0)
    /\ smGetOffset = JS("int", 0)

\* C15 as stated: a load() that finds no backing file, whatever was called on
\* the StateManager before, leaves the directory created, the file holding
\* offset 0 and getOffset() at 0.
C15_Original == LoadCreated => ColdStartState

\* C15 amended: so does a load() that finds no backing file when it is the
\* first call on a newly constructed StateManager.
C15_Amended == (LoadCreated /\ smLast.first) => ColdStartState

\* C15 witness: the first call on a StateManager was such a load()
C15_Witness ==
    /\ LoadCreated
    /\ smLast.first
    /\ smFile = JS("offset", 0)
    /\ lastWritten = NoId

\* C16: load() never raises; when the file could not be read, is not JSON, or
\* its directory could not be created, the error is logged and getOffset() is
\* 0, whatever the StateManager held before.
C16_LoadNeverRaises ==
    smLast.op = "load" =>
        /\ ~smLast.raised
        /\ (smFile.t = "invalid" => smLast.cause \in {"read", "parse"})
        /\ ((smFile = Absent /\ ~smDir) => smLast.cause = "mkdir")
        /\ (smLast.cause \in {"read", "parse", "mkdir"} => smGetOffset = JS("int", 0))

\* C16 witness: a StateManager that had been called before has loaded a file
\* that is not JSON, and its offset is 0
C16_Witness ==
    /\ smLast.op = "load"
    /\ ~smLast.first
    /\ smLast.cause = "parse"
    /\ lastWritten = NoId
    /\ smGetOffset = JS("int", 0)

\* C17 as stated: after load(), whatever the backing file holds, getOffset()
\* is a non-negative integer, and it is 0 unless the file holds an object with
\* a non-negative integer offset.
C17_LoadedOffsetIsNatural ==
    smLast.op = "load" =>
        /\ smGetOffset.t = "int"
        /\ smGetOffset.v >= 0
        /\ (~(smFile.t = "offset" /\ smFile.v >= 0) => smGetOffset.v = 0)

\* C18: when the write of the backing file (or the creation of its directory)
\* fails during setOffset(update_id + 1), the failure is logged by save(), the
\* in-memory cursor is update_id + 1, the file is as it was, and the loop goes
\* on to the next update of the batch, or to its head, without a sleep.
C18_SaveFailure ==
    [][(pc = "saving" /\ epoch' = epoch /\ calls'[idx].res = "savefail") =>
          /\ getOffset' = batch[idx] + 1
          /\ file' = file
          /\ IF idx < Len(batch)
             THEN pc' = "invoke" /\ idx' = idx + 1 /\ batch'[idx'] = batch[idx + 1]
             ELSE pc' = "top"]_vars

\* C18 witness: the save after the first update of a batch failed; the cursor
\* is past that update, the file is not, and the second update is with the
\* processor
C18_Witness ==
    /\ pc = "invoke"
    /\ idx = 2
    /\ calls[1].res = "savefail"
    /\ getOffset = batch[1] + 1
    /\ file < getOffset

\* C19 as stated: once a setOffset has written the backing file, the file
\* holds the offset of the latest setOffset whose write succeeded, and a new
\* StateManager on the same path that loads the file returns that offset.
C19_RoundTrip ==
    lastWritten # NoId =>
        /\ smFile = JS("offset", lastWritten)
        /\ ((smLast.op = "load" /\ smLast.first /\ smLast.cause = "none") =>
                smGetOffset = JS("int", lastWritten))

\* C20: a call of an API method makes one HTTP request; it returns the result
\* of an ok:true response, and raises when the request fails or the response is
\* ok:false, then with 'Telegram API error: ' and the description, or 'Unknown
\* error' when there is none.
C20_OneRequest ==
    \A i \in 1..Len(clLast) :
        LET r == clLast[i].resp
            o == clLast[i].out
        IN  /\ o.requests = 1
            /\ ((r.net = "json" /\ r.ok) => (~o.raised /\ o.value = r.result))
            /\ (r.net = "error" => o.raised)
            /\ ((r.net = "json" /\ ~r.ok) =>
                   /\ o.raised
                   /\ o.message = (IF r.description = ""
                                   THEN "Telegram API error: Unknown error"
                                   ELSE "Telegram API error: Unauthorized"))

\* C20 witness: a call met an ok:false response without description and raised
\* with 'Telegram API error: Unknown error'
C20_Witness ==
    /\ Len(clLast) = 1
    /\ clLast[1].resp.net = "json"
    /\ ~clLast[1].resp.ok
    /\ clLast[1].resp.description = ""
    /\ clLast[1].out.raised
    /\ clLast[1].out.message = "Telegram API error: Unknown error"

\* C23 as stated: when the process exits on SIGINT or SIGTERM, no processor
\* call and no cursor save is under way: each update passed to the processor
\* has had its call, and the save that follows it, brought to an end.
C23_GracefulShutdown ==
    pc = "exited" => \A i \in 1..Len(calls) : Finished(calls[i].res)

\* this step changes the cursor
CursorChanges == getOffset' # getOffset /\ epoch' = epoch

\* C26: inside start() the cursor is changed by the return of a processor
\* call and by nothing else (not by a failed fetch, an empty batch, the sleep,
\* stop(), a call that raised or the save); each call that returns changes it
\* once, to update_id + 1; and from a save under way the loop moves on, to the
\* next call or to its head, only with the save over.
C26_CursorFrame ==
    [][/\ (CursorChanges /\ pc \in LoopPositions) =>
             /\ pc = "invoke"
             /\ calls'[idx].res = "saving"
       /\ (InvocationEnds /\ calls'[idx].res = "saving") =>
             /\ getOffset' = batch[idx] + 1
             /\ pc' = "saving"
       /\ (pc = "saving" /\ pc' # pc /\ epoch' = epoch) =>
             /\ calls'[idx].res \in {"saved", "savefail"}
             /\ getOffset' = getOffset
             /\ pc' \in {"invoke", "top"}
       /\ (pc' = "fetching" /\ pc # pc') => Saving = {}]_vars

\* C26 witness: in a run that saw a failure the loop is at its head after an
\* empty batch, the cursor still one past the watched update, the largest one
\* processed, and saved
C26_Witness ==
    /\ pc = "top"
    /\ lastFetch = "empty"
    /\ ~clean
    /\ okRun
    /\ maxOk = watch
    /\ getOffset = watch + 1
    /\ file = getOffset

\* C28: a getUpdates call in flight carries the offset getOffset() returned
\* when the iteration started, which is still the cursor, with timeout 30 and
\* limit 100; on the documented remote that offset is one more than the id of
\* the update whose call returned last, or the loaded offset if none did.
C28_RequestParams ==
    pc = "fetching" =>
        /\ request = [offset |-> getOffset, timeout |-> 30, limit |-> 100]
        /\ request.offset = reqOffset
        /\ (maxOk # NoId => request.offset = maxOk + 1)
        /\ ((maxOk = NoId /\ ~loadFailed /\ file # NoFile) => request.offset = file)

\* C28 witness: a getUpdates call is in flight at the offset after update 1,
\* which was processed in this run
C28_Witness ==
    /\ pc = "fetching"
    /\ maxOk = 1
    /\ request.offset = 2
    /\ request.limit = 100

\* C30 as stated: after a Bot.stop() that came before PollingService.start()
\* began its loop, no getUpdates call is issued.
C30_StopNotLost ==
    stoppedEarly =>
        /\ pc \in {"boot", "starting", "top", "returned", "exited"}
        /\ lastFetch = "none"

\* a getUpdates call is in flight at an offset above the watched update
FetchingPast == pc = "fetching" /\ reqOffset > watch

GotFile ==
    /\ download.op = "downloadFileById"
    /\ download.fileResponse.net = "json"
    /\ download.fileResponse.ok

\* what a download that raised nothing and touched nothing looks like
Untouched(out) == out.requests = 0 /\ ~out.mkdir /\ ~out.written

\* the download request of the latest call failed to give a body
DownloadFailed(response) == response.net \in {"error", "body"} \/ ~response.ok

\* C21: downloadFileById rejects when the File has no file_path and when its
\* file_size is above 20*1024*1024, without a download request, a directory
\* or a file; a file_size of exactly 20*1024*1024 or none goes on to the
\* download; what getFile raised and what downloadFile raised reach the caller.
C21_DownloadById ==
    download.op = "downloadFileById" =>
        LET f == download.fileResponse
            out == download.out
        IN  /\ (GotFile /\ f.result.file_path = "") =>
                   (out.raised /\ out.message = "File path not available in response"
                    /\ Untouched(out))
            /\ (GotFile /\ f.result.file_path # "" /\ f.result.file_size > 20 * 1024 * 1024) =>
                   (out.raised /\ Untouched(out))
            /\ (GotFile /\ f.result.file_path # ""
                /\ f.result.file_size \in {NoSize, 20 * 1024 * 1024}) =>
                   /\ out.requests = 1
                   /\ out.raised <=> (DownloadFailed(download.response)
                                      \/ ~download.mkdirOk \/ ~download.writeOk)
            /\ f.net = "error" => (out.raised /\ out.message = FetchError /\ Untouched(out))
            /\ (f.net = "json" /\ ~f.ok) =>
                   (out.raised /\ out.message = ApiError(f.description) /\ Untouched(out))
            /\ (out.requests = 1 /\ download.response.net = "http" /\ ~download.response.ok) =>
                   (out.raised
                    /\ out.message = "Failed to download file: " \o download.response.statusText)

\* C21 witness: a file of exactly 20*1024*1024 bytes was downloaded and written
\* to the path given
C21_Witness ==
    /\ GotFile
    /\ download.fileResponse.result.file_size = 20 * 1024 * 1024
    /\ download.savePath # ""
    /\ ~download.out.raised
    /\ download.out.written
    /\ download.out.file_path = download.savePath

\* C22: downloadFile writes only after a response with a success status: on
\* an error status or a network failure it rejects with no directory created
\* and no file written, on a write failure it rejects with that failure, and
\* on success it returns the savePath given and the number of bytes written.
C22_DownloadFile ==
    download.op = "downloadFile" =>
        LET r == download.response
            out == download.out
        IN  /\ out.written => (r.net = "http" /\ r.ok)
            /\ DownloadFailed(r) => (out.raised /\ ~out.mkdir /\ ~out.written)
            /\ (~DownloadFailed(r) /\ download.mkdirOk /\ ~download.writeOk) =>
                   (out.raised /\ out.message = "write failed" /\ ~out.written)
            /\ (~DownloadFailed(r) /\ download.mkdirOk /\ download.writeOk) =>
                   (~out.raised /\ out.written /\ out.file_path = download.savePath
                    /\ out.file_size = r.bytes)

\* C22 witness: a body of 1024 bytes was written to the path given and
\* reported
C22_Witness ==
    /\ download.op = "downloadFile"
    /\ download.response.bytes = 1024
    /\ ~download.out.raised
    /\ download.out.written
    /\ download.out.file_size = 1024
    /\ download.out.file_path = "downloads/a.pdf"

\* the text is "/" and the name in some letter case, then the arguments, each
\* after one space
IsCommandText(text, name, args) ==
    /\ Len(text) = 1 + Len(name) + Len(JoinArgs(args))
    /\ text[1] = "/"
    /\ toLowerCase(SubSeq(text, 2, 1 + Len(name))) = toLowerCase(name)
    /\ SubSeq(text, 2 + Len(name), Len(text)) = JoinArgs(args)

\* C24: for every registered command, handling a message whose text is "/" and
\* the name, in any letter case, followed by arguments calls the callback
\* registered last under that name, once, with the argument list.
C24_Dispatch ==
    handled.op = "command" =>
        \A name \in DOMAIN commands : \A args \in ArgLists :
            IsCommandText(handled.message.text, name, args) =>
                handled.did.callbacks = <<[callback |-> commands[name], args |-> args]>>

\* the decimal numeral of a natural number
RECURSIVE Numeral(_)
Numeral(n) ==
    IF n < 10 THEN <<DigitChars[n + 1]>>
    ELSE Numeral(n \div 10) \o <<DigitChars[(n % 10) + 1]>>

\* the sender is the user ALLOWED_USER_ID names
IsAllowedUser(from) == from.t = "number" /\ from.v >= 0 /\ Numeral(from.v) = env.value

\* C25: with ALLOWED_USER_ID set (here: to a string that is not empty),
\* MessageHandler.handle sends no message, downloads no file and calls no
\* command callback for a message whose sender is not that user, or that has
\* no sender.
C25_OnlyAllowedUser ==
    (/\ handled.op = "message"
     /\ env.set
     /\ Len(env.value) > 0
     /\ ~IsAllowedUser(handled.message.from)) =>
        handled.did = Nothing

\* C29: whatever start() and stop() calls are made on one PollingService, at
\* most one polling loop is active.
C29_OneLoop == Cardinality(Active) <= 1

\* C31 as stated: in every state after load() the offset in the backing file
\* is at most getOffset().
C31_Original == pc # "boot" => file <= getOffset

\* C31 amended: once load() has come to its end having read or created the
\* file, the offset in the file is at most getOffset(); the two come to differ
\* only by a setOffset whose save is under way, or by a load() that could not
\* create the file; they still differ at the end of a save only if that save
\* failed, and a save that succeeds makes them equal.
C31_Amended ==
    /\ []((pc # "boot" /\ ~loadFailed) => file <= getOffset)
    /\ [][(epoch' = epoch /\ ~loadFailed') =>
            /\ (pc = "boot" /\ pc' # pc /\ file' # getOffset') => file' = NoFile
            /\ (pc # "boot" /\ file = getOffset /\ file' # getOffset') =>
                   (pc = "invoke" /\ pc' = "saving")
            /\ (pc = "saving" /\ pc' # pc /\ file' # getOffset') =>
                   calls'[idx].res = "savefail"
            /\ (pc = "saving" /\ pc' # pc /\ calls'[idx].res = "saved") =>
                   file' = getOffset']_vars

\* C31 witness: in one batch a save failed and the save after the next call
\* succeeded, so that the file has caught up with the cursor
C31_Witness ==
    /\ ~loadFailed
    /\ pc = "top"
    /\ Len(calls) = 2
    /\ calls[1].res = "savefail"
    /\ calls[2].res = "saved"
    /\ file = getOffset
    /\ file = calls[2].id + 1

\* the names of the steps Bot.start() has taken after load(), in order
StepsTaken == [i \in 1..Len(startup) |-> startup[i].step]
StartOrder == <<"getMe", "registerBotCommands", "start">>

\* the offset load() left: the one read from the file, or 0 when the file was
\* absent or could not be read
OffsetLoaded == IF loadFailed \/ file = NoFile THEN 0 ELSE file

\* C32: Bot.start() takes its steps in the order load, getMe,
\* registerBotCommands, start polling; no getUpdates call is issued before
\* all of them, load() first, have come to an end; and the first getUpdates
\* call carries the offset load() read from the file, or 0 if it fell back.
C32_StartOrder ==
    /\ StepsTaken = SubSeq(StartOrder, 1, Len(startup))
    /\ pc = "boot" => startup = <<>>
    /\ (pc = "fetching" \/ lastFetch # "none" \/ request # NoRequest) =>
           (StepsTaken = StartOrder /\ pc \notin {"boot", "starting", "registering", "ready"})
    /\ (pc = "fetching" /\ lastFetch = "none") => request.offset = OffsetLoaded

\* C32 witness: the first getUpdates call of a process that found offset 2 in
\* its backing file is in flight with that offset, after the three steps
C32_Witness ==
    /\ pc = "fetching"
    /\ lastFetch = "none"
    /\ file = 2
    /\ request.offset = 2
    /\ StepsTaken = StartOrder

\* getMe, or registerBotCommands, failed during this Bot.start()
Failed(name) == \E i \in 1..Len(startup) : startup[i].step = name /\ ~startup[i].ok

\* C33: when getMe fails Bot.start() rejects, no getUpdates call is ever
\* issued and cursor and file stay as load() left them; when
\* registerBotCommands fails Bot.start() goes on to start polling all the same.
C33_StartupFailures ==
    /\ [](Failed("getMe") =>
             /\ pc = "rejected"
             /\ lastFetch = "none"
             /\ request = NoRequest
             /\ getOffset = OffsetLoaded)
    /\ [](Failed("registerBotCommands") => pc # "rejected")
    /\ [][/\ (pc = "starting" /\ pc' # pc) => UNCHANGED <<state, file, isRunning>>
          /\ (pc = "registering" /\ pc' # pc) =>
                 (pc' = "ready" /\ UNCHANGED <<state, file, isRunning>>)
          /\ (pc = "ready" /\ pc' # pc) => (pc' = "top" /\ isRunning')]_vars

\* C33 witness: registerBotCommands failed and a getUpdates call is in flight
C33_Witness ==
    /\ Failed("registerBotCommands")
    /\ ~Failed("getMe")
    /\ pc = "fetching"

\* what the if chain of handle() should make of a message, by the priority
\* document, photo, command, text
Priority(message) ==
    IF message.document THEN "document"
    ELSE IF message.photo # "absent" THEN "photo"
    ELSE IF Len(message.text) > 0 /\ message.text[1] = "/" THEN "command"
    ELSE "text"

\* the latest call was MessageHandler.handle on a message of an authorized
\* sender: no filter is set, or the sender is the user it names
FromAuthorized ==
    /\ handled.op = "message"
    /\ allowedUserId.t \in {"null", "NaN"} \/ allowedUserId.v = 0
       \/ handled.message.from = allowedUserId

\* C34: for a message from an authorized sender handle() takes exactly one
\* route, the first that applies of document, photo, command and text: with a
\* document it downloads (and calls no callback, echoes no text), with a
\* photo and no document likewise, with neither it calls at most a command
\* callback or sends the echo, and never downloads.
C34_Routing ==
    FromAuthorized =>
        LET did == handled.did IN
        /\ did.route = Priority(handled.message)
        /\ did.route \in {"document", "photo"} =>
               /\ did.callbacks = <<>>
               /\ did.downloads = (IF handled.message.photo = "empty" /\ did.route = "photo"
                                   THEN 0 ELSE 1)
               /\ did.sent = (IF did.downloads = 1 /\ ~handled.ok.dl THEN 1 ELSE 0)
        /\ did.route = "command" => (did.downloads = 0 /\ Len(did.callbacks) <= 1)
        /\ did.route = "text" =>
               /\ did.downloads = 0
               /\ did.callbacks = <<>>
               /\ did.sent = (IF Len(handled.message.text) > 0 THEN 1 ELSE 0)

\* C34 witness: a message with a document, a photo and a command text went
\* the document route: one download, no callback
C34_Witness ==
    /\ FromAuthorized
    /\ handled.message.document
    /\ handled.message.photo = "some"
    /\ handled.message.text = <<"/", "i", "d">>
    /\ handled.did.route = "document"
    /\ handled.did.downloads = 1
    /\ handled.did.callbacks = <<>>

\* C35: when downloadFileById fails for a document or a photo, handle() sends
\* one message to the user and returns without raising.
C35_DownloadFailureReported ==
    (/\ handled.op \in {"message", "photo"}
     /\ handled.did.route \in {"document", "photo"}
     /\ handled.did.downloads = 1
     /\ ~handled.ok.dl) =>
        (handled.did.sent = 1 /\ ~handled.did.raised)

\* C36: CommandHandler.handle never raises, whether called directly or by
\* MessageHandler.handle: a text without a leading "/" or naming no
\* registered command calls no callback, and a callback that raises is
\* swallowed, so the processor call on such an update returns.
C36_CommandNeverRaises ==
    (handled.op = "command" \/ (handled.op = "message" /\ handled.did.route = "command")) =>
        /\ ~handled.did.raised
        /\ (Len(handled.message.text) = 0 \/ handled.message.text[1] # "/") =>
               handled.did.callbacks = <<>>
        /\ (handled.did.callbacks # <<>>) =>
               \E name \in DOMAIN commands :
                   /\ handled.did.callbacks[1].callback = commands[name]
                   /\ IsCommandText(handled.message.text, name, handled.did.callbacks[1].args)

\* C36 witness: a registered callback was called through MessageHandler.handle
\* and raised, and handle() returned
C36_Witness ==
    /\ handled.op = "message"
    /\ handled.did.route = "command"
    /\ Len(handled.did.callbacks) = 1
    /\ handled.did.callbacks[1].callback \in Callbacks
    /\ ~handled.ok.cb
    /\ ~handled.did.raised

\* entry e is larger than entry c by the priority file_size, then area
Larger(e, c) ==
    IF HasSize(e) /\ HasSize(c) THEN e.file_size > c.file_size ELSE area(e) > area(c)

\* C37: of a non-empty photo array handlePhotoMessage downloads the largest
\* entry: the maximal file_size when every entry has one, the maximal area
\* when none has, and in all cases an entry no other entry is larger than.
C37_LargestPhoto ==
    handled.op = "photo" =>
        LET photos == handled.photos
            c == photos[handled.chosen]
        IN  /\ (\A i \in 1..Len(photos) : HasSize(photos[i])) =>
                   \A i \in 1..Len(photos) : photos[i].file_size <= c.file_size
            /\ (\A i \in 1..Len(photos) : ~HasSize(photos[i])) =>
                   \A i \in 1..Len(photos) : area(photos[i]) <= area(c)
            /\ \A i \in 1..Len(photos) : ~Larger(photos[i], c)

====
